---- MODULE Spec2Model ----
(***************************************************************************)
(* Markov-chain text generator of text_utilities.py (class TextGenerator). *)
(* One behaviour is one call of generate_text: the corpus file is read,    *)
(* normalised into words, the transition dictionary `chain` is built, a    *)
(* random walk of output_words_length steps is sampled, and the result is  *)
(* trimmed in place by clean_up_markov_output.  call_openai_api of         *)
(* chatGptApiCall.py is the caller: it joins the returned words into a     *)
(* sentence and either posts it to the completion API or, with             *)
(* --no-chat-gpt, prints it.                                               *)
(*                                                                         *)
(* A text is a sequence of one-character strings; a word (token) is a      *)
(* string; a key of `chain` is a sequence of words (a Python tuple).       *)
(***************************************************************************)
EXTENDS Integers, Sequences, FiniteSets, TLC

(***************************************************************************)
(* Bounds of the model.                                                    *)
(***************************************************************************)
MaxFileWords == 4      \* whitespace-separated raw words in the corpus file
MaxOrder == 2          \* largest prefix_length (Markov order k)
MaxLength == 2         \* largest output_words_length (n)
MaxSeedWords == 2      \* words in a --seed-words string
MaxResponses == 2      \* largest Config.NUM_OF_RESPONSES
MaxApiFileWords == 2   \* raw words of the corpus file in the runs of call_openai_api
MaxTextLen == 5        \* characters of a corpus text given character by character

(***************************************************************************)
(* Inputs.                                                                 *)
(***************************************************************************)
BoundedSeq(S, n) == UNION {[1..m -> S] : m \in 0..n}

RECURSIVE JoinWords(_)
\* ' '.join(ws) over texts
JoinWords(ws) ==
    IF ws = <<>> THEN <<>>
    ELSE IF Len(ws) = 1 THEN ws[1]
    ELSE ws[1] \o <<" ">> \o JoinWords(Tail(ws))

\* raw words a corpus file is made of: "And", "x," and "i" in quotes
RawWords == { <<"A", "n", "d">>, <<"x", ",">>, <<"\"", "i", "\"">> }

FileTexts == { JoinWords(ws) : ws \in BoundedSeq(RawWords, MaxFileWords) }

\* words of a seed string
SeedWords == { <<"a", "n", "d">>, <<"h", "i", "m">> }

SeedTexts == { JoinWords(ws) : ws \in BoundedSeq(SeedWords, MaxSeedWords) }

\* seed_words=None
NoSeed == [given |-> FALSE, text |-> <<>>]

Seeds == {NoSeed} \cup { [given |-> TRUE, text |-> t] : t \in SeedTexts }

\* a corpus file: one that cannot be opened has no content to offer
Files == { [readable |-> FALSE, text |-> <<>>] }
            \cup { [readable |-> TRUE, text |-> t] : t \in FileTexts }

\* characters of the texts the normaliser is run on character by character
NormChars == {"a", "B", ".", "-", "(", " "}

NormTexts == BoundedSeq(NormChars, MaxTextLen)

(***************************************************************************)
(* clean_up_corpus_string and str.split.                                   *)
(***************************************************************************)
\* str.lower on one character
Lower(c) ==
    CASE c = "A" -> "a"
      [] c = "B" -> "b"
      [] c = "M" -> "m"
      [] c = "X" -> "x"
      [] OTHER -> c

Whitespace == {" ", "\n", "\t"}

RECURSIVE Replace(_, _, _)
\* str.replace(old, new) for a one-character old and a text new
Replace(s, old, new) ==
    IF s = <<>> THEN <<>>
    ELSE (IF Head(s) = old THEN new ELSE <<Head(s)>>) \o Replace(Tail(s), old, new)

RECURSIVE ReplaceEach(_, _, _)
\* for char in chars: s = s.replace(char, new)
ReplaceEach(s, chars, new) ==
    IF chars = <<>> THEN s
    ELSE ReplaceEach(Replace(s, Head(chars), new), Tail(chars), new)

\* SpacedChars with the full stop forgotten
SpacedCharsNoStop == <<"!", ",", "@", "&", "?", "-">>

SpacedChars == <<"!", ".", ",", "@", "&", "?", "-">>
DeletedChars == <<"\"", "(", ")">>

RECURSIVE SplitFrom(_, _, _, _)
SplitFrom(s, j, cur, acc) ==
    IF j > Len(s)
    THEN (IF cur = "" THEN acc ELSE Append(acc, cur))
    ELSE IF s[j] \in Whitespace
         THEN SplitFrom(s, j + 1, "", IF cur = "" THEN acc ELSE Append(acc, cur))
         ELSE SplitFrom(s, j + 1, cur \o s[j], acc)

\* str.split(): the words between runs of whitespace
Split(s) == SplitFrom(s, 1, "", <<>>)

\* clean_up_corpus_string with the second loop replacing by " " as the first does
clean_up_corpus_string_spaced(s) ==
    LET lowered == [j \in 1..Len(s) |-> Lower(s[j])]
        spaced == ReplaceEach(lowered, SpacedChars, <<" ">>)
        deleted == ReplaceEach(spaced, DeletedChars, <<" ">>)
    IN  Split(deleted)

clean_up_corpus_string(s) ==
    LET lowered == [j \in 1..Len(s) |-> Lower(s[j])]
        spaced == ReplaceEach(lowered, SpacedChars, <<" ">>)
        deleted == ReplaceEach(spaced, DeletedChars, <<>>)
    IN  Split(deleted)

(***************************************************************************)
(* Helpers of markov_algorithm.                                            *)
(***************************************************************************)
Min(a, b) == IF a < b THEN a ELSE b

\* Python s[a:b] for 0 <= a <= b
Slice(s, a, b) == SubSeq(s, a + 1, Min(b, Len(s)))

\* tuple(['.'] * prefix_length)
SentinelKey(k) == [j \in 1..k |-> "."]

\* InitialChain with the filler forgotten: {sentinel: []}
InitialChainNoFiller(k) == [key \in {SentinelKey(k)} |-> <<>>]

\* InitialChain with the terminator in place of the filler: {sentinel: ['.']}
InitialChainTerminator(k) == [key \in {SentinelKey(k)} |-> <<".">>]

\* chain = {tuple(['.'] * prefix_length): [' ']}
InitialChain(k) == [key \in {SentinelKey(k)} |-> <<" ">>]

\* BuildRange with the order not subtracted: range(len(corpus_as_string))
BuildRangeNoOrder(c, k) == Len(c)

\* range(len(corpus_as_string) - prefix_length): the loop runs for i < BuildRange
BuildRange(c, k) == Len(c) - k

\* Successor off by one: the last word of the window instead of the word after it
SuccessorLastOfKey(c, j, k) == IF j + k < Len(c) THEN c[j + k] ELSE "."

\* corpus_as_string[i + prefix_length] if i + prefix_length < len(...) else '.'
Successor(c, j, k) == IF j + k < Len(c) THEN c[j + k + 1] ELSE "."

\* tuple(seed_words.split())
SeedSeq(seed) == Split(seed.text)

\* Slide without the [1:]: the key grows by one word per step
SlideKeepFirst(key, w) == Append(key, w)

\* tuple((list(current_seq) + [next_word])[1:])
Slide(key, w) == Tail(Append(key, w))

(***************************************************************************)
(* Helpers of clean_up_markov_output.                                      *)
(***************************************************************************)
TrailingWords == {"and", "i", "mr"}
LeadingWords == {"and", "him"}

\* list.pop()
PopLast(l) == SubSeq(l, 1, Len(l) - 1)

\* list.pop(0)
PopFirst(l) == Tail(l)

(***************************************************************************)
(* State.                                                                  *)
(***************************************************************************)
VARIABLES
    pc,                   \* position in generate_text
    file,                 \* the corpus file named by corpus_file_name
    prefix_length,        \* argument of generate_text
    output_words_length,  \* argument of generate_text
    seed_words,           \* argument of generate_text
    corpus_text,          \* corpus_as_string as returned by return_corpus_text
    corpus_as_string,     \* corpus_as_string after clean_up_corpus_string (a list of words)
    chain,                \* the transition dictionary
    i,                    \* loop index of the running loop
    seq,                  \* key of the running build iteration
    start_seq,            \* start_seq of markov_algorithm
    current_seq,          \* current_seq of markov_algorithm
    output_word_list,     \* the list that is sampled, trimmed and returned
    printed,              \* the error message of return_corpus_text was printed
    recoveries,           \* number of KeyError handlers run by the walk
    markov_output,        \* value returned by markov_algorithm
    exception,            \* exception that left generate_text, or "none"
    Config_VERBOSE,       \* Config.VERBOSE, set from --verbose before the call
    warnings,             \* number of self.logger.warning calls of the walk
    no_chat_gpt,          \* argument of call_openai_api (--no-chat-gpt)
    raw_markov,           \* argument of call_openai_api (--raw-markov)
    Config_NUM_OF_RESPONSES,  \* Config.NUM_OF_RESPONSES (--number_of_responses)
    api_key_set,          \* GPT_API_KEY is in os.environ
    sentence,             \* sentence of call_openai_api
    corrected_sentence,   \* corrected_sentence of call_openai_api, its return value
    requests_sent,        \* number of requests.post calls
    printed_raw,          \* the RAW MARKOV block was printed
    errors_logged         \* number of logger.error calls

vars == << pc, file, prefix_length, output_words_length, seed_words, corpus_text,
           corpus_as_string, chain, i, seq, start_seq, current_seq,
           output_word_list, printed, recoveries, markov_output, exception,
           Config_VERBOSE, warnings, no_chat_gpt, raw_markov, Config_NUM_OF_RESPONSES,
           api_key_set, sentence, corrected_sentence, requests_sent, printed_raw,
           errors_logged >>

inputs == << file, prefix_length, output_words_length, seed_words, Config_VERBOSE,
             no_chat_gpt, raw_markov, Config_NUM_OF_RESPONSES, api_key_set >>

\* what call_openai_api has computed after generate_text
api_state == << sentence, corrected_sentence, requests_sent, printed_raw, errors_logged >>

\* nothing of call_openai_api past generate_text has run
ApiIdle ==
    /\ sentence = ""
    /\ corrected_sentence = ""
    /\ requests_sent = 0
    /\ printed_raw = FALSE
    /\ errors_logged = 0

\* generate_text called on its own: the arguments of call_openai_api play no part
NoApiArguments ==
    /\ no_chat_gpt = FALSE
    /\ raw_markov = FALSE
    /\ Config_NUM_OF_RESPONSES = 1
    /\ api_key_set = TRUE

Init ==
    /\ pc = "read"
    /\ file \in Files
    /\ prefix_length \in 1..MaxOrder
    /\ output_words_length \in 0..MaxLength
    /\ seed_words \in Seeds
    /\ Config_VERBOSE \in BOOLEAN
    /\ NoApiArguments
    /\ ApiIdle
    /\ warnings = 0
    /\ corpus_text = <<>>
    /\ corpus_as_string = <<>>
    /\ chain = << >>
    /\ i = 0
    /\ seq = <<>>
    /\ start_seq = <<>>
    /\ current_seq = <<>>
    /\ output_word_list = <<>>
    /\ printed = FALSE
    /\ recoveries = 0
    /\ markov_output = <<>>
    /\ exception = "none"

(***************************************************************************)
(* generate_text, step by step.                                            *)
(***************************************************************************)
\* ReadCorpus with the except branch returning "" without a message
ReadCorpusSilent ==
    /\ pc = "read"
    /\ corpus_text' = (IF file.readable THEN file.text ELSE <<>>)
    /\ printed' = FALSE
    /\ pc' = "clean"
    /\ UNCHANGED << inputs, api_state, warnings, corpus_as_string, chain, i, seq, start_seq, current_seq,
                    output_word_list, recoveries, markov_output, exception >>

\* return_corpus_text: the content, or "" with a printed message
ReadCorpus ==
    /\ pc = "read"
    /\ corpus_text' = (IF file.readable THEN file.text ELSE <<>>)
    /\ printed' = ~file.readable
    /\ pc' = "clean"
    /\ UNCHANGED << inputs, api_state, warnings, corpus_as_string, chain, i, seq, start_seq, current_seq,
                    output_word_list, recoveries, markov_output, exception >>

CleanCorpus ==
    /\ pc = "clean"
    /\ corpus_as_string' = clean_up_corpus_string(corpus_text)
    /\ pc' = "chain"
    /\ UNCHANGED << inputs, api_state, warnings, corpus_text, chain, i, seq, start_seq, current_seq,
                    output_word_list, printed, recoveries, markov_output, exception >>

\* markov_algorithm, line 119
ChainInit ==
    /\ pc = "chain"
    /\ chain' = InitialChain(prefix_length)
    /\ i' = 0
    /\ pc' = "build"
    /\ UNCHANGED << inputs, api_state, warnings, corpus_text, corpus_as_string, seq, start_seq, current_seq,
                    output_word_list, printed, recoveries, markov_output, exception >>

\* BuildSeq with the list reset on every visit: chain[seq] = [] without the test
BuildSeqReset ==
    /\ pc = "build"
    /\ i < BuildRange(corpus_as_string, prefix_length)
    /\ LET s == Slice(corpus_as_string, i, i + prefix_length)
       IN  /\ seq' = s
           /\ chain' = [key \in DOMAIN chain \cup {s} |->
                          IF key = s THEN <<>> ELSE chain[key]]
    /\ pc' = "append"
    /\ UNCHANGED << inputs, api_state, warnings, corpus_text, corpus_as_string, i, start_seq, current_seq,
                    output_word_list, printed, recoveries, markov_output, exception >>

\* lines 122-131: next iteration, seq is formed and its list created when new
BuildSeq ==
    /\ pc = "build"
    /\ i < BuildRange(corpus_as_string, prefix_length)
    /\ LET s == Slice(corpus_as_string, i, i + prefix_length)
       IN  /\ seq' = s
           /\ chain' = (IF s \in DOMAIN chain THEN chain ELSE chain @@ (s :> <<>>))
    /\ pc' = "append"
    /\ UNCHANGED << inputs, api_state, warnings, corpus_text, corpus_as_string, i, start_seq, current_seq,
                    output_word_list, printed, recoveries, markov_output, exception >>

\* line 134
BuildAppend ==
    /\ pc = "append"
    /\ chain' = [chain EXCEPT ![seq] =
                    Append(@, Successor(corpus_as_string, i, prefix_length))]
    /\ i' = i + 1
    /\ pc' = "build"
    /\ UNCHANGED << inputs, api_state, warnings, corpus_text, corpus_as_string, seq, start_seq, current_seq,
                    output_word_list, printed, recoveries, markov_output, exception >>

\* ChooseStart with the seed ignored: always random.choice(list(chain.keys()))
ChooseStartRandom ==
    /\ pc = "build"
    /\ ~(i < BuildRange(corpus_as_string, prefix_length))
    /\ \E key \in DOMAIN chain :
         /\ start_seq' = key
         /\ output_word_list' = key
         /\ current_seq' = key
    /\ i' = 0
    /\ pc' = "sample"
    /\ UNCHANGED << inputs, api_state, warnings, corpus_text, corpus_as_string, chain, seq,
                    printed, recoveries, markov_output, exception >>

\* lines 136-141, entered when the build loop is exhausted
ChooseStart ==
    /\ pc = "build"
    /\ ~(i < BuildRange(corpus_as_string, prefix_length))
    /\ \E key \in DOMAIN chain :
         LET s == IF seed_words.given THEN SeedSeq(seed_words) ELSE key
         IN  /\ start_seq' = s
             /\ output_word_list' = s
             /\ current_seq' = s
    /\ i' = 0
    /\ pc' = "sample"
    /\ UNCHANGED << inputs, api_state, warnings, corpus_text, corpus_as_string, chain, seq,
                    printed, recoveries, markov_output, exception >>

\* lines 144, 156, 157: current_seq is a key
SampleStep ==
    /\ pc = "sample"
    /\ i < output_words_length
    /\ current_seq \in DOMAIN chain
    /\ \E idx \in 1..Len(chain[current_seq]) :
         LET next_word == chain[current_seq][idx]
         IN  /\ current_seq' = Slide(current_seq, next_word)
             /\ output_word_list' = Append(output_word_list, next_word)
    /\ i' = i + 1
    /\ UNCHANGED << pc, inputs, api_state, warnings, corpus_text, corpus_as_string, chain, seq, start_seq,
                    printed, recoveries, markov_output, exception >>

\* RecoverStep without the except clause: the KeyError leaves markov_algorithm
RecoverStepFails ==
    /\ pc = "sample"
    /\ i < output_words_length
    /\ current_seq \notin DOMAIN chain
    /\ exception' = "KeyError"
    /\ pc' = "raised"
    /\ UNCHANGED << inputs, api_state, warnings, corpus_text, corpus_as_string, chain, i, seq, start_seq,
                    current_seq, output_word_list, printed, recoveries, markov_output >>

\* RecoverStep on a dictionary that creates missing keys (a defaultdict(list)):
\* the lookup itself inserts current_seq with an empty list before the re-seed
RecoverStepAddsKey ==
    /\ pc = "sample"
    /\ i < output_words_length
    /\ current_seq \notin DOMAIN chain
    /\ \E key \in DOMAIN chain :
         \E idx \in 1..Len(chain[key]) :
           LET next_word == chain[key][idx]
           IN  /\ current_seq' = Slide(key, next_word)
               /\ output_word_list' = Append(output_word_list, next_word)
    /\ chain' = chain @@ (current_seq :> <<>>)
    /\ recoveries' = recoveries + 1
    /\ warnings' = (IF Config_VERBOSE THEN warnings + 1 ELSE warnings)
    /\ i' = i + 1
    /\ UNCHANGED << pc, inputs, api_state, corpus_text, corpus_as_string, seq, start_seq,
                    printed, markov_output, exception >>

\* RecoverStep with the logger call left out of the except clause
RecoverStepNoWarning ==
    /\ pc = "sample"
    /\ i < output_words_length
    /\ current_seq \notin DOMAIN chain
    /\ \E key \in DOMAIN chain :
         \E idx \in 1..Len(chain[key]) :
           LET next_word == chain[key][idx]
           IN  /\ current_seq' = Slide(key, next_word)
               /\ output_word_list' = Append(output_word_list, next_word)
    /\ recoveries' = recoveries + 1
    /\ i' = i + 1
    /\ UNCHANGED << pc, inputs, api_state, warnings, corpus_text, corpus_as_string, chain, seq, start_seq,
                    printed, markov_output, exception >>

\* lines 145-157: KeyError, a warning when Config.VERBOSE, a random key replaces
\* current_seq
RecoverStep ==
    /\ pc = "sample"
    /\ i < output_words_length
    /\ current_seq \notin DOMAIN chain
    /\ \E key \in DOMAIN chain :
         \E idx \in 1..Len(chain[key]) :
           LET next_word == chain[key][idx]
           IN  /\ current_seq' = Slide(key, next_word)
               /\ output_word_list' = Append(output_word_list, next_word)
    /\ recoveries' = recoveries + 1
    /\ warnings' = (IF Config_VERBOSE THEN warnings + 1 ELSE warnings)
    /\ i' = i + 1
    /\ UNCHANGED << pc, inputs, api_state, corpus_text, corpus_as_string, chain, seq, start_seq,
                    printed, markov_output, exception >>

\* SampleReturn with a break on the terminator: the walk also ends when
\* current_seq holds a '.'
SampleReturnOnTerminator ==
    /\ pc = "sample"
    /\ (~(i < output_words_length) \/ "." \in { current_seq[j] : j \in 1..Len(current_seq) })
    /\ markov_output' = output_word_list
    /\ pc' = "trim_tail"
    /\ UNCHANGED << inputs, api_state, warnings, corpus_text, corpus_as_string, chain, i, seq, start_seq,
                    current_seq, output_word_list, printed, recoveries, exception >>

\* line 158: return output_word_list
SampleReturn ==
    /\ pc = "sample"
    /\ ~(i < output_words_length)
    /\ markov_output' = output_word_list
    /\ pc' = "trim_tail"
    /\ UNCHANGED << inputs, api_state, warnings, corpus_text, corpus_as_string, chain, i, seq, start_seq,
                    current_seq, output_word_list, printed, recoveries, exception >>

\* TrimTail working on a copy: the caller's list is left as it was
TrimTailOnCopy ==
    /\ pc = "trim_tail"
    /\ IF output_word_list = <<>>
       THEN /\ exception' = "IndexError"
            /\ pc' = "raised"
       ELSE /\ pc' = "trim_head"
            /\ UNCHANGED exception
    /\ UNCHANGED << inputs, api_state, warnings, corpus_text, corpus_as_string, chain, i, seq, start_seq,
                    current_seq, output_word_list, printed, recoveries, markov_output >>

RECURSIVE StripTrailing(_)
StripTrailing(l) ==
    IF l # <<>> /\ l[Len(l)] \in TrailingWords THEN StripTrailing(PopLast(l)) ELSE l

\* TrimTail with a while in place of the if: every trailing word is stripped
TrimTailAll ==
    /\ pc = "trim_tail"
    /\ IF output_word_list = <<>>
       THEN /\ exception' = "IndexError"
            /\ pc' = "raised"
            /\ UNCHANGED output_word_list
       ELSE /\ output_word_list' = StripTrailing(output_word_list)
            /\ pc' = "trim_head"
            /\ UNCHANGED exception
    /\ UNCHANGED << inputs, api_state, warnings, corpus_text, corpus_as_string, chain, i, seq, start_seq,
                    current_seq, printed, recoveries, markov_output >>

\* clean_up_markov_output, lines 90-91; [-1] of an empty list is an IndexError
TrimTail ==
    /\ pc = "trim_tail"
    /\ IF output_word_list = <<>>
       THEN /\ exception' = "IndexError"
            /\ pc' = "raised"
            /\ UNCHANGED output_word_list
       ELSE /\ output_word_list' =
                 (IF output_word_list[Len(output_word_list)] \in TrailingWords
                  THEN PopLast(output_word_list) ELSE output_word_list)
            /\ pc' = "trim_head"
            /\ UNCHANGED exception
    /\ UNCHANGED << inputs, api_state, warnings, corpus_text, corpus_as_string, chain, i, seq, start_seq,
                    current_seq, printed, recoveries, markov_output >>

\* clean_up_markov_output, lines 94-95, then line 83; [0] of an empty list is
\* an IndexError
TrimHead ==
    /\ pc = "trim_head"
    /\ IF output_word_list = <<>>
       THEN /\ exception' = "IndexError"
            /\ pc' = "raised"
            /\ UNCHANGED output_word_list
       ELSE /\ output_word_list' =
                 (IF output_word_list[1] \in LeadingWords
                  THEN PopFirst(output_word_list) ELSE output_word_list)
            /\ pc' = "done"
            /\ UNCHANGED exception
    /\ UNCHANGED << inputs, api_state, warnings, corpus_text, corpus_as_string, chain, i, seq, start_seq,
                    current_seq, printed, recoveries, markov_output >>

Next ==
    \/ ReadCorpus
    \/ CleanCorpus
    \/ ChainInit
    \/ BuildSeq
    \/ BuildAppend
    \/ ChooseStart
    \/ SampleStep
    \/ RecoverStep
    \/ SampleReturn
    \/ TrimTail
    \/ TrimHead

Spec == Init /\ [][Next]_vars

(***************************************************************************)
(* call_openai_api: generate_text, then the request or its replacement.    *)
(***************************************************************************)
RECURSIVE convert_word_list_to_string(_)
\* ' '.join(final_output_word_list)
convert_word_list_to_string(l) ==
    IF l = <<>> THEN ""
    ELSE IF Len(l) = 1 THEN l[1]
    ELSE l[1] \o " " \o convert_word_list_to_string(Tail(l))

\* status codes the completion API answers with
StatusCodes == {200, 429, 500}

\* choices[j]["text"].strip() of a 200 response
ChoiceText == "text"

RECURSIVE JoinedChoices(_)
\* lines 130-133: corrected_sentence after n iterations
JoinedChoices(n) ==
    IF n = 0 THEN "" ELSE JoinedChoices(n - 1) \o ChoiceText \o "\n\n"

\* lines 74-83, 88: the sentence, setup_api_request (which reads
\* os.environ["GPT_API_KEY"]), corrected_sentence = "", and the branch
ApiSetup ==
    /\ pc = "done"
    /\ sentence' = convert_word_list_to_string(output_word_list)
    /\ IF api_key_set
       THEN /\ pc' = (IF no_chat_gpt THEN "no_request" ELSE "request")
            /\ UNCHANGED exception
       ELSE /\ pc' = "api_raised"
            /\ exception' = "KeyError"
    /\ UNCHANGED << inputs, corpus_text, corpus_as_string, chain, i, seq, start_seq,
                    current_seq, output_word_list, printed, recoveries, markov_output,
                    warnings, corrected_sentence, requests_sent, printed_raw,
                    errors_logged >>

\* make_api_request, lines 122-151, and the return of line 92; corrected_sentence
\* is assigned in the 200 branch only, so line 151 is an UnboundLocalError
\* in the other branch
MakeApiRequest ==
    /\ pc = "request"
    /\ requests_sent' = requests_sent + 1
    /\ \E status_code \in StatusCodes :
         IF status_code = 200
         THEN /\ corrected_sentence' =
                   (IF Config_NUM_OF_RESPONSES > 1
                    THEN JoinedChoices(Config_NUM_OF_RESPONSES) ELSE ChoiceText)
              /\ printed_raw' = raw_markov
              /\ pc' = "api_returned"
              /\ UNCHANGED << errors_logged, exception >>
         ELSE /\ errors_logged' = errors_logged + (IF status_code = 429 THEN 3 ELSE 2)
              /\ exception' = "UnboundLocalError"
              /\ pc' = "api_raised"
              /\ UNCHANGED << corrected_sentence, printed_raw >>
    /\ UNCHANGED << inputs, corpus_text, corpus_as_string, chain, i, seq, start_seq,
                    current_seq, output_word_list, printed, recoveries, markov_output,
                    warnings, sentence >>

\* dont_make_api_request, lines 165-185, with print_corrected_sentence, lines
\* 193-217, and the return of line 92: None + str is a TypeError at line 173,
\* and with Config.VERBOSE line 205 calls .json() on the str "Expected
\* response...", an AttributeError
DontMakeApiRequest ==
    /\ pc = "no_request"
    /\ IF Config_NUM_OF_RESPONSES > 1
       THEN /\ exception' = "TypeError"
            /\ pc' = "api_raised"
            /\ UNCHANGED printed_raw
       ELSE /\ printed_raw' = TRUE
            /\ IF Config_VERBOSE
               THEN /\ exception' = "AttributeError"
                    /\ pc' = "api_raised"
               ELSE /\ pc' = "api_returned"
                    /\ UNCHANGED exception
    /\ UNCHANGED << inputs, corpus_text, corpus_as_string, chain, i, seq, start_seq,
                    current_seq, output_word_list, printed, recoveries, markov_output,
                    warnings, sentence, corrected_sentence, requests_sent,
                    errors_logged >>

\* corpus files of the runs of call_openai_api
ApiFiles == { [readable |-> FALSE, text |-> <<>>] }
              \cup { [readable |-> TRUE, text |-> JoinWords(ws)] :
                       ws \in BoundedSeq(RawWords, MaxApiFileWords) }

\* seeds of the runs of call_openai_api: none, or the word "and"
ApiSeeds == {NoSeed, [given |-> TRUE, text |-> <<"a", "n", "d">>]}

InitApi ==
    /\ pc = "read"
    /\ file \in ApiFiles
    /\ prefix_length \in 1..MaxOrder
    /\ output_words_length \in 0..MaxLength
    /\ seed_words \in ApiSeeds
    /\ Config_VERBOSE \in BOOLEAN
    /\ no_chat_gpt \in BOOLEAN
    /\ raw_markov \in BOOLEAN
    /\ Config_NUM_OF_RESPONSES \in 1..MaxResponses
    /\ api_key_set \in BOOLEAN
    /\ ApiIdle
    /\ warnings = 0
    /\ corpus_text = <<>>
    /\ corpus_as_string = <<>>
    /\ chain = << >>
    /\ i = 0
    /\ seq = <<>>
    /\ start_seq = <<>>
    /\ current_seq = <<>>
    /\ output_word_list = <<>>
    /\ printed = FALSE
    /\ recoveries = 0
    /\ markov_output = <<>>
    /\ exception = "none"

NextApi ==
    \/ Next
    \/ ApiSetup
    \/ MakeApiRequest
    \/ DontMakeApiRequest

SpecApi == InitApi /\ [][NextApi]_vars

(***************************************************************************)
(* The normaliser and the builder on texts given character by character:   *)
(* the call starts where return_corpus_text has returned the text.         *)
(***************************************************************************)
InitNorm ==
    /\ pc = "clean"
    /\ file \in { [readable |-> TRUE, text |-> t] : t \in NormTexts }
    /\ corpus_text = file.text
    /\ prefix_length \in 1..MaxOrder
    /\ output_words_length = 0
    /\ seed_words = NoSeed
    /\ Config_VERBOSE = FALSE
    /\ NoApiArguments
    /\ ApiIdle
    /\ warnings = 0
    /\ corpus_as_string = <<>>
    /\ chain = << >>
    /\ i = 0
    /\ seq = <<>>
    /\ start_seq = <<>>
    /\ current_seq = <<>>
    /\ output_word_list = <<>>
    /\ printed = FALSE
    /\ recoveries = 0
    /\ markov_output = <<>>
    /\ exception = "none"

NextNorm ==
    \/ CleanCorpus
    \/ ChainInit
    \/ BuildSeq
    \/ BuildAppend

SpecNorm == InitNorm /\ [][NextNorm]_vars

TypeOK ==
    /\ pc \in {"read", "clean", "chain", "build", "append", "sample",
               "trim_tail", "trim_head", "done", "raised",
               "request", "no_request", "api_returned", "api_raised"}
    /\ exception \in {"none", "IndexError", "KeyError", "TypeError", "AttributeError",
                       "UnboundLocalError"}
    /\ i \in 0..(MaxFileWords + MaxLength + 2)

(***************************************************************************)
(* Vocabulary of the properties.                                           *)
(***************************************************************************)
\* the build loop is over and chain is final
BuildDone == pc \in {"sample", "trim_tail", "trim_head", "done", "raised"}

\* markov_algorithm has returned
Returned == pc \in {"trim_tail", "trim_head", "done", "raised"}

\* clean_up_markov_output has ended, normally or not
Sanitized == pc \in {"done", "raised"}

\* the list the walk has produced so far
Walk == IF pc = "sample" THEN output_word_list ELSE markov_output

Words(l) == { l[j] : j \in 1..Len(l) }

Fillers(n) == [j \in 1..n |-> " "]

RECURSIVE FollowersUpTo(_, _, _, _)
FollowersUpTo(c, k, key, m) ==
    IF m = 0 THEN <<>>
    ELSE LET rest == FollowersUpTo(c, k, key, m - 1)
             p == m - 1
         IN  IF p + k < Len(c) /\ SubSeq(c, p + 1, p + k) = key
             THEN Append(rest, c[p + k + 1])
             ELSE rest

\* the words c[p+k], in ascending p, over the occurrences p of key in c that
\* have a word after them
Followers(c, k, key) == FollowersUpTo(c, k, key, Len(c))

\* key occurs in c as a run of consecutive words
OccursIn(c, key) ==
    \E p \in 0..(Len(c) - Len(key)) : SubSeq(c, p + 1, p + Len(key)) = key

(***************************************************************************)
(* C1: markov_algorithm returns exactly len(seed or initial key) + n words *)
(* (k + n when the start is a key of k words), however many recoveries     *)
(* happened, and it does not stop early on a terminator: it returns only   *)
(* after n steps.                                                          *)
(***************************************************************************)
C1_ReturnsStartPlusN ==
    /\ pc = "sample" =>
         /\ i <= output_words_length
         /\ Len(output_word_list) = Len(start_seq) + i
    /\ Returned =>
         /\ Len(markov_output) = Len(start_seq) + output_words_length
         /\ seed_words.given =>
              Len(markov_output) = Len(SeedSeq(seed_words)) + output_words_length
         /\ ~seed_words.given =>
              Len(markov_output) = prefix_length + output_words_length

C1_Witness ==
    /\ Returned
    /\ recoveries >= 1
    /\ ~seed_words.given
    /\ "." \in Words(markov_output)
    /\ output_words_length = MaxLength

(***************************************************************************)
(* C2: a step that finds current_seq missing from chain does not fail: a   *)
(* key of chain replaces current_seq, a successor of that key is appended  *)
(* in the same step, and the walk goes on until n steps are done.          *)
(***************************************************************************)
C2_RecoveryStep ==
    (pc = "sample" /\ i < output_words_length /\ current_seq \notin DOMAIN chain)
    => /\ pc' = "sample"
       /\ exception' = "none"
       /\ i' = i + 1
       /\ \E key \in DOMAIN chain :
            \E j \in 1..Len(chain[key]) :
              /\ output_word_list' = output_word_list \o <<chain[key][j]>>
              /\ current_seq' = SubSeq(key, 2, Len(key)) \o <<chain[key][j]>>

C2_Recovery ==
    /\ [](Returned => i = output_words_length)
    /\ [](pc \in {"sample", "trim_tail"} => exception = "none")
    /\ [][C2_RecoveryStep]_vars

C2_Witness ==
    /\ pc = "done"
    /\ seed_words.given
    /\ SeedSeq(seed_words) \notin DOMAIN chain
    /\ recoveries >= 2

(***************************************************************************)
(* C3: every key of the built chain other than the sentinel is a run of k  *)
(* consecutive corpus words, and its successor list is exactly the words   *)
(* that follow its occurrences, in corpus order, duplicates kept,          *)
(* overlapping occurrences included.                                       *)
(***************************************************************************)
C3_SuccessorsAreFollowers ==
    BuildDone =>
      \A key \in DOMAIN chain \ {SentinelKey(prefix_length)} :
        /\ Len(key) = prefix_length
        /\ OccursIn(corpus_as_string, key)
        /\ chain[key] = Followers(corpus_as_string, prefix_length, key)

C3_Witness ==
    /\ BuildDone
    /\ prefix_length = 2
    /\ \E key \in DOMAIN chain :
         /\ Len(chain[key]) >= 2
         /\ chain[key][1] # chain[key][2]

(***************************************************************************)
(* C4: the last k words of a corpus of at least k words are a key of the   *)
(* chain, and the terminator is the last successor of that key.            *)
(***************************************************************************)
C4_TrailingKeyHasTerminator ==
    (BuildDone /\ Len(corpus_as_string) >= prefix_length) =>
      LET c == corpus_as_string
          last == SubSeq(c, Len(c) - prefix_length + 1, Len(c))
      IN  /\ last \in DOMAIN chain
          /\ chain[last][Len(chain[last])] = "."

(***************************************************************************)
(* C5: once chain is created it holds the sentinel key of k terminators,   *)
(* and every key has a non-empty successor list, during the build loop     *)
(* from the key's first append on and after the loop.                      *)
(***************************************************************************)
C5_SentinelAndNonEmpty ==
    pc \notin {"read", "clean", "chain"} =>
      /\ SentinelKey(prefix_length) \in DOMAIN chain
      /\ \A key \in DOMAIN chain :
           chain[key] # <<>> \/ (pc = "append" /\ key = seq)

C5_Witness ==
    /\ pc = "build"
    /\ i >= 2
    /\ Cardinality(DOMAIN chain) >= 3

(***************************************************************************)
(* C6: a corpus of fewer than k words (an empty one included) gives a      *)
(* chain of one key, the sentinel, with the filler as its only successor;  *)
(* no window is scanned and nothing is raised.                             *)
(***************************************************************************)
C6_DegenerateModel ==
    (BuildDone /\ Len(corpus_as_string) < prefix_length) =>
      /\ DOMAIN chain = {SentinelKey(prefix_length)}
      /\ chain[SentinelKey(prefix_length)] = <<" ">>
      /\ seq = <<>>
      /\ (pc \in {"sample", "trim_tail"} => exception = "none")

C6_Witness ==
    /\ pc = "trim_tail"
    /\ Len(corpus_as_string) = 1
    /\ prefix_length = 2

(***************************************************************************)
(* C7: clean_up_markov_output never raises on a list of 0 or 1 words; the  *)
(* list is left unchanged or emptied.                                      *)
(***************************************************************************)
C7_ShortListNeverRaises ==
    (Sanitized /\ Len(markov_output) <= 1) =>
      /\ exception = "none"
      /\ output_word_list \in {markov_output, <<>>}

(***************************************************************************)
(* C8: on a list of two or more words clean_up_markov_output drops the     *)
(* last word iff it is one of and, i, mr, then drops the first word iff it *)
(* is one of and, him; nothing else is removed or reordered and nothing is *)
(* checked again after a removal.                                          *)
(***************************************************************************)
C8_TrimOncePerEnd ==
    (Returned /\ Len(markov_output) >= 2) =>
      LET raw == markov_output
          hi == IF raw[Len(raw)] \in {"and", "i", "mr"} THEN Len(raw) - 1 ELSE Len(raw)
          lo == IF raw[1] \in {"and", "him"} THEN 2 ELSE 1
      IN  /\ pc # "raised"
          /\ pc = "trim_head" => output_word_list = SubSeq(raw, 1, hi)
          /\ pc = "done" => output_word_list = SubSeq(raw, lo, hi)

C8_Witness ==
    /\ pc = "done"
    /\ Len(markov_output) >= 4
    /\ markov_output[1] = "and"
    /\ markov_output[2] = "and"
    /\ markov_output[Len(markov_output)] = "i"
    /\ markov_output[Len(markov_output) - 1] = "i"

(***************************************************************************)
(* C9: when a seed is given and it is a key of chain, the first k words of *)
(* the walk are the seed's words, in order, at every step of the walk and  *)
(* in the list markov_algorithm returns.                                   *)
(***************************************************************************)
C9_SeedIsPrefix ==
    (BuildDone /\ seed_words.given /\ SeedSeq(seed_words) \in DOMAIN chain) =>
      /\ Len(Walk) >= prefix_length
      /\ SubSeq(Walk, 1, prefix_length) = SeedSeq(seed_words)

C9_Witness ==
    /\ pc = "trim_tail"
    /\ seed_words.given
    /\ SeedSeq(seed_words) \in DOMAIN chain
    /\ prefix_length = 2
    /\ output_words_length >= 1

(***************************************************************************)
(* C10: when the corpus file cannot be read, generate_text does not return *)
(* a generated word list.                                                  *)
(***************************************************************************)
C10_NoOutputWhenUnreadable ==
    ~file.readable => pc # "done"

(***************************************************************************)
(* C10, amended: when the corpus file cannot be read, return_corpus_text   *)
(* prints an error message and returns the empty text, and generate_text   *)
(* goes on with the empty corpus: the chain has the sentinel key only,     *)
(* every sampled word is the filler, the list handed to                    *)
(* clean_up_markov_output is the start sequence followed by n fillers, and *)
(* for n >= 1 generate_text returns it, sanitized, without raising.        *)
(***************************************************************************)
C10_UnreadableGivesSentinelOutput ==
    /\ pc # "read" => printed = ~file.readable
    /\ (~file.readable /\ pc # "read") =>
         /\ corpus_text = <<>>
         /\ pc # "clean" => corpus_as_string = <<>>
         /\ BuildDone => DOMAIN chain = {SentinelKey(prefix_length)}
         /\ Returned =>
              markov_output = start_seq \o Fillers(output_words_length)
         /\ output_words_length >= 1 => pc # "raised"

C10_Witness ==
    /\ ~file.readable
    /\ pc = "done"
    /\ output_words_length = MaxLength
    /\ output_word_list # <<>>

(***************************************************************************)
(* C11: every recovery event of the walk is reported by a warning, so the  *)
(* number of warnings equals the number of recoveries, and a recovery is   *)
(* no error.                                                               *)
(***************************************************************************)
C11_EveryRecoveryReported ==
    /\ warnings = recoveries
    /\ pc \in {"sample", "trim_tail"} => exception = "none"

(***************************************************************************)
(* C11, amended: a recovery event is reported by self.logger.warning       *)
(* exactly when Config.VERBOSE is set: with it every recovery is reported  *)
(* and nothing else is, without it no recovery is reported; in both cases  *)
(* the recovery is no error and the walk goes on.                          *)
(***************************************************************************)
C11_RecoveryReportedWhenVerbose ==
    /\ Config_VERBOSE => warnings = recoveries
    /\ ~Config_VERBOSE => warnings = 0
    /\ pc \in {"sample", "trim_tail"} => exception = "none"
    /\ Returned => i = output_words_length

C11_Witness ==
    /\ Returned
    /\ Config_VERBOSE
    /\ recoveries >= 1
    /\ recoveries < output_words_length
    /\ warnings = recoveries

(***************************************************************************)
(* Vocabulary of the normaliser's properties: the words of a text, read    *)
(* off its runs of characters between separators.                          *)
(***************************************************************************)
PunctuationSpaced == {"!", ".", ",", "@", "&", "?", "-"}
PunctuationDropped == {"\"", "(", ")"}
UpperCase == {"A", "B", "M", "X"}
Blank == {" ", "\n", "\t"}

IsSeparator(c) == c \in PunctuationSpaced \cup Blank

\* last position of the separator-free run that starts at a
RunEnd(t, a) ==
    CHOOSE b \in a..Len(t) :
      /\ \A j \in a..b : ~IsSeparator(t[j])
      /\ b = Len(t) \/ IsSeparator(t[b + 1])

\* the characters a run contributes: lowercased, dropped punctuation left out
RunChars(t, a, b) ==
    SelectSeq([j \in 1..(b - a + 1) |-> Lower(t[a + j - 1])],
              LAMBDA c : c \notin PunctuationDropped)

RECURSIVE RunsFrom(_, _)
RunsFrom(t, a) ==
    IF a > Len(t) THEN <<>>
    ELSE IF IsSeparator(t[a]) THEN RunsFrom(t, a + 1)
    ELSE LET b == RunEnd(t, a)
             w == RunChars(t, a, b)
         IN  (IF w = <<>> THEN <<>> ELSE <<w>>) \o RunsFrom(t, b + 1)

RECURSIVE Glue(_)
Glue(w) == IF w = <<>> THEN "" ELSE w[1] \o Glue(Tail(w))

(***************************************************************************)
(* C12: clean_up_corpus_string returns, for every text, the words of the   *)
(* lowercased text in their order, where each of ! . , @ & ? - separates   *)
(* words like a space and each of " ( ) is dropped without separating;     *)
(* no word is empty or holds whitespace, an uppercase letter or one of     *)
(* these ten characters.                                                   *)
(***************************************************************************)
C12_NormalizerWords ==
    pc \notin {"read", "clean"} =>
      LET runs == RunsFrom(corpus_text, 1)
      IN  /\ corpus_as_string = [j \in 1..Len(runs) |-> Glue(runs[j])]
          /\ \A j \in 1..Len(runs) :
               /\ runs[j] # <<>>
               /\ corpus_as_string[j] # ""
               /\ \A c \in Words(runs[j]) :
                    c \notin Blank \cup UpperCase \cup PunctuationSpaced
                             \cup PunctuationDropped

C12_Witness ==
    /\ pc = "chain"
    /\ corpus_text = <<"a", "(", "B", "-", "a">>
    /\ corpus_as_string = <<"ab", "a">>

(***************************************************************************)
(* C13: with an empty corpus text and no seed, for every k and n the walk  *)
(* yields k terminators followed by n fillers and generate_text returns    *)
(* that list; the first step samples at the sentinel key, every later step *)
(* gets back to it by a recovery, and nothing is raised.                   *)
(***************************************************************************)
C13_EmptyCorpusOutput ==
    (pc # "read" /\ corpus_text = <<>> /\ ~seed_words.given) =>
      LET dots == [j \in 1..prefix_length |-> "."]
      IN  /\ exception = "none"
          /\ pc # "raised"
          /\ pc = "sample" =>
               /\ output_word_list = dots \o Fillers(i)
               /\ recoveries = (IF i <= 1 THEN 0 ELSE i - 1)
          /\ Returned => markov_output = dots \o Fillers(output_words_length)
          /\ pc = "done" => output_word_list = dots \o Fillers(output_words_length)

C13_Witness ==
    /\ pc = "done"
    /\ file.readable
    /\ corpus_text = <<>>
    /\ ~seed_words.given
    /\ prefix_length = MaxOrder
    /\ output_words_length = MaxLength
    /\ recoveries = MaxLength - 1

(***************************************************************************)
(* C14: seed words that are no key of the chain (a seed of another number  *)
(* of words than the order included) are prepended: the list generate_text *)
(* returns begins with exactly the seed words, in order.                   *)
(***************************************************************************)
C14_SeedPrepended ==
    (pc = "done" /\ seed_words.given /\ SeedSeq(seed_words) \notin DOMAIN chain) =>
      /\ Len(output_word_list) >= Len(SeedSeq(seed_words))
      /\ SubSeq(output_word_list, 1, Len(SeedSeq(seed_words))) = SeedSeq(seed_words)

(***************************************************************************)
(* C15: with --no-chat-gpt, whether one response or more are configured,   *)
(* call_openai_api sends no request, prints the raw Markov sentence and    *)
(* returns without raising.  Stated for the calls that got as far as       *)
(* dont_make_api_request without Config.VERBOSE.                           *)
(***************************************************************************)
C15_NoChatGptReturns ==
    (no_chat_gpt /\ ~Config_VERBOSE /\ pc \in {"api_returned", "api_raised"} /\ api_key_set)
    => /\ requests_sent = 0
       /\ printed_raw
       /\ pc = "api_returned"
       /\ exception = "none"

(***************************************************************************)
(* C16: a step taken at a key of the chain appends one of that key's       *)
(* successors and slides current_seq: the old key without its first word,  *)
(* followed by the appended word; after every step, normal or recovery,    *)
(* current_seq has exactly k words.                                        *)
(***************************************************************************)
C16_Step ==
    (pc = "sample" /\ i' = i + 1) =>
      /\ current_seq \in DOMAIN chain =>
           \E j \in 1..Len(chain[current_seq]) :
             /\ output_word_list' = output_word_list \o <<chain[current_seq][j]>>
             /\ current_seq' = SubSeq(current_seq, 2, Len(current_seq))
                                  \o <<chain[current_seq][j]>>
      /\ Len(current_seq') = prefix_length

C16_SamplerStep == [][C16_Step]_vars

C16_Witness ==
    /\ Returned
    /\ output_words_length = 2
    /\ recoveries = 1
    /\ start_seq \in DOMAIN chain
    /\ start_seq # SentinelKey(prefix_length)
    /\ prefix_length = 2

(***************************************************************************)
(* C17: the list generate_text returns is the raw list of the walk with    *)
(* at most one word removed at each end, and its length lies between       *)
(* k + n - 2 and k + n.                                                    *)
(***************************************************************************)
C17_ReturnedLengthKN ==
    pc = "done" =>
      /\ \E a \in {0, 1} : \E b \in {0, 1} :
           output_word_list = SubSeq(markov_output, 1 + a, Len(markov_output) - b)
      /\ Len(output_word_list) >= prefix_length + output_words_length - 2
      /\ Len(output_word_list) <= prefix_length + output_words_length

(***************************************************************************)
(* C17, amended: the list generate_text returns is the raw list of the     *)
(* walk after clean_up_markov_output: the raw list with at most one word   *)
(* removed at each end; its length lies between len(raw) - 2 and len(raw), *)
(* where len(raw) = len(seed or initial key) + n, which is k + n when the  *)
(* start sequence has k words.                                             *)
(***************************************************************************)
C17_ReturnedIsSanitized ==
    pc = "done" =>
      LET raw == markov_output
          cut == IF raw # <<>> /\ raw[Len(raw)] \in {"and", "i", "mr"}
                 THEN SubSeq(raw, 1, Len(raw) - 1) ELSE raw
          out == IF cut # <<>> /\ cut[1] \in {"and", "him"}
                 THEN SubSeq(cut, 2, Len(cut)) ELSE cut
      IN  /\ output_word_list = out
          /\ \E a \in {0, 1} : \E b \in {0, 1} :
               output_word_list = SubSeq(raw, 1 + a, Len(raw) - b)
          /\ Len(raw) = Len(start_seq) + output_words_length
          /\ Len(output_word_list) >= Len(raw) - 2
          /\ Len(output_word_list) <= Len(raw)
          /\ Len(start_seq) = prefix_length =>
               /\ Len(output_word_list) >= prefix_length + output_words_length - 2
               /\ Len(output_word_list) <= prefix_length + output_words_length

C17_Witness ==
    /\ pc = "done"
    /\ Len(start_seq) = prefix_length
    /\ Len(output_word_list) = prefix_length + output_words_length - 2
    /\ output_words_length = MaxLength

(***************************************************************************)
(* C18: once the build loop has finished, no step changes the chain (its   *)
(* keys or any successor list) or the corpus: not a normal step, not a     *)
(* recovery, not a removal by clean_up_markov_output.                      *)
(***************************************************************************)
C18_Step ==
    (\/ BuildDone
     \/ (pc = "build" /\ ~(i < Len(corpus_as_string) - prefix_length)))
    => /\ chain' = chain
       /\ corpus_as_string' = corpus_as_string
       /\ corpus_text' = corpus_text

C18_ReadOnlyAfterBuild == [][C18_Step]_vars

C18_Witness ==
    /\ pc = "done"
    /\ recoveries >= 1
    /\ recoveries < output_words_length
    /\ Len(output_word_list) < Len(markov_output)
    /\ Cardinality(DOMAIN chain) >= 3

(***************************************************************************)
(* C19: no word of a normalised corpus is the terminator or the filler     *)
(* (no word holds a full stop or whitespace at all), so no window of the   *)
(* corpus is the sentinel key, the build loop never appends to the         *)
(* sentinel's list, and that list stays the single filler.                 *)
(***************************************************************************)
C19_SentinelUntouched ==
    /\ pc \notin {"read", "clean"} =>
         /\ \A j \in 1..Len(corpus_as_string) : corpus_as_string[j] \notin {".", " "}
         /\ \A w \in Words(RunsFrom(corpus_text, 1)) :
              Words(w) \cap ({"."} \cup Blank) = {}
         /\ ~OccursIn(corpus_as_string, [j \in 1..prefix_length |-> "."])
    /\ pc \notin {"read", "clean", "chain"} =>
         /\ chain[[j \in 1..prefix_length |-> "."]] = <<" ">>
         /\ pc = "append" => seq # [j \in 1..prefix_length |-> "."]

C19_Witness ==
    /\ pc = "build"
    /\ i >= 2
    /\ prefix_length = 1
    /\ corpus_text = <<"a", ".", "B", ".", "a">>

(***************************************************************************)
(* C20: in a walk that starts at a key other than the sentinel and has had *)
(* no recovery, current_seq is the last k words of the output after every  *)
(* step, and every k+1 consecutive words of the output occur in the corpus *)
(* as consecutive words.                                                   *)
(***************************************************************************)
C20_WalkFollowsCorpus ==
    (/\ BuildDone
     /\ start_seq \in DOMAIN chain
     /\ start_seq # SentinelKey(prefix_length)
     /\ recoveries = 0)
    => /\ Len(Walk) >= prefix_length
       /\ current_seq = SubSeq(Walk, Len(Walk) - prefix_length + 1, Len(Walk))
       /\ \A p \in 1..(Len(Walk) - prefix_length) :
            OccursIn(corpus_as_string, SubSeq(Walk, p, p + prefix_length))

C20_Witness ==
    /\ pc = "trim_tail"
    /\ start_seq \in DOMAIN chain
    /\ start_seq # SentinelKey(prefix_length)
    /\ recoveries = 0
    /\ prefix_length = 2
    /\ output_words_length = MaxLength

(***************************************************************************)
(* C21: when the completion API answers with a status other than 200,      *)
(* make_api_request logs the error and returns the empty corrected         *)
(* sentence to call_openai_api without raising.  errors_logged is positive *)
(* exactly after such an answer.                                           *)
(***************************************************************************)
C21_FailedRequestReturnsValue ==
    errors_logged > 0
    => /\ requests_sent = 1
       /\ pc = "api_returned"
       /\ exception = "none"
       /\ corrected_sentence = ""

====
